---- MODULE Spec2Model ----
(***************************************************************************)
(* The Kalshi daily trade downloader, scripts/download_kalshi_trades.py.   *)
(*                                                                         *)
(* A calendar date is an integer: the number of days since 1970-01-01, so  *)
(* that date + timedelta(days=1) is date + 1 and the UTC midnight of a     *)
(* date is date * 86400.  The output directory is a function from dates to *)
(* file contents.  One run of main() plans, fans the pending days out to a *)
(* ThreadPoolExecutor and collects the outcomes; the remote API, the file  *)
(* system and a kill of the process are the environment.  A call of        *)
(* fetch_page, with all its retries, is one step of the day's worker: it   *)
(* touches nothing but its own arguments.                                  *)
(***************************************************************************)
EXTENDS Integers, Sequences, FiniteSets, TLC

(* ------------------------------ constants ------------------------------ *)

MAX_RETRIES == 8

RETRY_DELAY_SECONDS == 10

\* "2025-08-15" as days since 1970-01-01
DEFAULT_START_DATE == 20315

\* timedelta(days=1) in seconds
SECONDS_PER_DAY == 86400

\* args.start_date / args.end_date not given (argparse leaves None)
NoDate == 0

\* a --start-date / --end-date string that strptime("%Y-%m-%d") rejects
BadDate == -1

(* -------------------------------- bounds ------------------------------- *)

\* the calendar of a run: DEFAULT_START_DATE .. DEFAULT_START_DATE + MaxDays - 1
MaxDays == 3

\* the longest cursor chain the remote API serves for one day
MaxPages == 2

\* the calendar of the planning-only specification
MaxPlanDays == 5

\* how many pages of a chain that never ends are followed
MaxEndlessPages == 3

Days == DEFAULT_START_DATE .. (DEFAULT_START_DATE + MaxDays - 1)

LastDay == DEFAULT_START_DATE + MaxDays - 1

PlanDays == (DEFAULT_START_DATE - 1) .. (DEFAULT_START_DATE + MaxPlanDays - 2)

(* ------------------------------ the state ------------------------------ *)

VARIABLES
    args,          \* argparse.Namespace: start_date, end_date, overwrite, include_today, max_workers
    today,         \* datetime.now(tz).date()
    files,         \* the output directory: date -> content of <date>.json
    pc,            \* where main() is: "start", "pool", "exit", "crashed"
    rc,            \* the process's exit code (-1 while none)
    outcome,       \* which return of main() ended the run
    start_date,    \* main's local start_date
    end_date,      \* main's local end_date (after the include-today adjustment)
    pending_days,  \* main's local pending_days
    tstate,        \* per day: the state of its future / worker task
    cursor,        \* per day: fetch_trades_for_day's local cursor (0 is None)
    trades,        \* per day: fetch_trades_for_day's local trades
    exc,           \* per day: the exception its future holds
    failures,      \* main's local failures
    served,        \* per day: the pages the remote API has answered with (0: no page)
    files0,        \* the output directory as the current run found it
    traced,        \* the day whose fetch_page calls are observed (NoDate: none)
    last_call,     \* the latest fetch_page call of the traced day in this run
    requested,     \* per day: the cursor each fetch_page call of this run was given
    starts,        \* per day: how often download_single_day was entered in this run
    opens,         \* per day: how often its file was opened for writing in this run
    prev_outcome,  \* how the run before the current one ended ("none": no such run)
    endless        \* the days for which the remote returns a cursor with every page

vars == <<args, today, files, pc, rc, outcome, start_date, end_date, pending_days,
          tstate, cursor, trades, exc, failures, served, files0, traced, last_call,
          requested, starts, opens, prev_outcome, endless>>

\* the calendar the directory is indexed by
Cal == DOMAIN files

(* ----------------------------- file contents --------------------------- *)

NoFile == [kind |-> "none"]

\* a file that exists and holds a proper prefix of the JSON text (possibly empty)
Truncated == [kind |-> "truncated"]

\* the window ends on the next midnight
to_unix_range_m(day) ==
    LET start_ts == day * SECONDS_PER_DAY
        end_ts == start_ts + SECONDS_PER_DAY
    IN  <<start_ts, end_ts>>

\* datetime(y, m, d, tzinfo=utc).timestamp() and that plus one day minus one second
to_unix_range(day) ==
    LET start_ts == day * SECONDS_PER_DAY
        end_ts == start_ts + SECONDS_PER_DAY - 1
    IN  <<start_ts, end_ts>>

\* the payload download_single_day dumps
Payload(day, ts) ==
    [kind |-> "record",
     date |-> day,
     min_ts |-> to_unix_range(day)[1],
     max_ts |-> to_unix_range(day)[2],
     trade_count |-> Len(ts),
     trades |-> ts]

Exists(fs, day) == fs[day].kind # "none"

IsDayRecord(f) == f.kind = "record"

(* ------------------------------ the remote ----------------------------- *)

\* how many pages the remote's cursor chain of a day has
NPages(day) == 1 + (day % MaxPages)

\* how many trades page p of a day holds
PageSize(p) == p % 3

\* the trades of page p of a day
PageTrades(day, p) == [i \in 1..PageSize(p) |-> <<day, p, i>>]

RECURSIVE ChainTrades(_, _)
ChainTrades(day, n) ==
    IF n = 0 THEN <<>> ELSE ChainTrades(day, n - 1) \o PageTrades(day, n)

\* every trade of the day, in cursor order
DayTrades(day) == ChainTrades(day, NPages(day))

\* a Day Record left by an earlier complete download
OldRecord(day) == Payload(day, DayTrades(day))

\* responses that raise an exception fetch_page's except clause names
Caught == {"http_5xx", "http_4xx", "timeout"}

\* what else a urlopen can end in: a page object, a body that is not JSON, a JSON
\* value that is not an object, a JSON object with neither "trades" nor "cursor"
Final == {"page", "bad_json", "not_object", "no_trades"}

\* the "cursor" of the last page of a day's chain: absent (0), null (-1) or "" (-2)
EndCursor(day) == 0 - (day % 3)

\* the "cursor" of the response that carries page p of a day
ResponseCursor(day, p) ==
    IF day \in endless \/ p < NPages(day) THEN p ELSE EndCursor(day)

\* what the remote serves for a request: the page after the cursor it carries
\* (0: the request has no cursor parameter)
PageFor(c) == c + 1

ExcOf(kind) ==
    CASE kind \in {"http_5xx", "http_4xx"} -> "HTTPError"
      [] kind = "timeout" -> "TimeoutError"
      [] kind = "bad_json" -> "JSONDecodeError"
      [] kind = "not_object" -> "AttributeError"

\* how the remote answers the successive urlopen calls of one fetch_page: n_fail times
\* with fail_kind, then with final
Scripts == [n_fail : 0..(MAX_RETRIES + 1), fail_kind : Caught, final : Final]

Reply(script, i) == IF i <= script.n_fail THEN script.fail_kind ELSE script.final

\* the answers given to a day that is not observed: one caught error, one body
\* json.loads rejects, and the retry counts that decide fetch_page's outcome
PlainScripts ==
    [n_fail : {0, MAX_RETRIES - 1, MAX_RETRIES, MAX_RETRIES + 1},
     fail_kind : {"http_5xx"}, final : {"page", "bad_json"}]

ScriptsFor(d) == IF d = traced THEN Scripts ELSE PlainScripts

\* no fetch_page call observed yet
NoCall == [status |-> "none"]

Range(s) == {s[i] : i \in 1..Len(s)}

(* ------------------------------ fetch_page ----------------------------- *)

\* a ninth attempt is made before giving up
RetriesExhausted_m(a) == a > MAX_RETRIES

\* fetch_page's test before it re-raises
RetriesExhausted(a) == a >= MAX_RETRIES

\* fetch_page's sleep after failed attempt a
sleep_seconds(a) == RETRY_DELAY_SECONDS * a

\* params is the cursor parameter of the request (0: none); sent lists the
\* parameter of every urlopen of the call
RECURSIVE fetch_page(_, _, _)
fetch_page(params, script, attempt) ==
    LET reply == Reply(script, attempt)
    IN  IF reply \in Caught
        THEN IF RetriesExhausted(attempt)
             THEN [status |-> "raised", exc |-> ExcOf(reply), body |-> "none",
                   calls |-> attempt, slept |-> <<>>, sent |-> <<params>>]
             ELSE LET r == fetch_page(params, script, attempt + 1)
                  IN  [r EXCEPT !.slept = <<sleep_seconds(attempt)>> \o r.slept,
                                !.sent = <<params>> \o r.sent]
        ELSE IF reply = "bad_json"
        THEN [status |-> "raised", exc |-> ExcOf(reply), body |-> "none",
              calls |-> attempt, slept |-> <<>>, sent |-> <<params>>]
        ELSE [status |-> "returned", exc |-> "none", body |-> reply,
              calls |-> attempt, slept |-> <<>>, sent |-> <<params>>]

(* ------------------------------- planning ------------------------------ *)

\* the end date is left out
daterange_m(start, end) == [i \in 1..(end - start) |-> start + i - 1]

\* the dates start, start + 1 day, ... while <= end
daterange(start, end) == [i \in 1..(end - start + 1) |-> start + i - 1]

parse_ok(value) == value # BadDate

existing_dates(fs) == {d \in DOMAIN fs : Exists(fs, d)}

Max(S) == CHOOSE x \in S : \A y \in S : y <= x

\* the start is the fixed date whatever the directory holds
DefaultStart_m2(existing) == DEFAULT_START_DATE

\* the start resumes on the latest saved date itself
DefaultStart_m(existing) ==
    IF existing # {} THEN Max(existing) ELSE DEFAULT_START_DATE

\* detect_range's start date when --start-date is not given
DefaultStart(existing) ==
    IF existing # {} THEN Max(existing) + 1 ELSE DEFAULT_START_DATE

detect_range(a, fs, now) ==
    LET default_end == now - 1
        end == IF a.end_date # NoDate THEN a.end_date ELSE default_end
        existing == existing_dates(fs)
        start == IF a.start_date # NoDate
                 THEN a.start_date
                 ELSE DefaultStart(existing)
    IN  [ok |-> parse_ok(a.end_date) /\ parse_ok(a.start_date),
         start_date |-> start,
         end_date |-> end,
         today_local |-> now]

\* an end date at or after today is kept
AdjustEnd_m(a, end, now) == end

\* main's adjustment of the end date
AdjustEnd(a, end, now) ==
    IF ~a.include_today /\ end >= now THEN now - 1 ELSE end

\* the test never holds
NoNewDates_m(start, end) == FALSE

\* main's test before "No new dates to download"
NoNewDates(start, end) == start > end

\* every day is planned again, whatever the directory holds
AlreadyThere_m(a, fs, d) == FALSE

\* the days that have a file are the ones planned
AlreadyThere_m2(a, fs, d) == ~Exists(fs, d) /\ ~a.overwrite

\* main's test before "[skip] ... already exists."
AlreadyThere(a, fs, d) == Exists(fs, d) /\ ~a.overwrite

\* every day to download is appended twice
Pending_m(a, fs, start, end) ==
    LET once == SelectSeq(daterange(start, end), LAMBDA d : ~AlreadyThere(a, fs, d))
    IN  once \o once

\* main's loop over daterange(start_date, end_date)
Pending(a, fs, start, end) ==
    SelectSeq(daterange(start, end), LAMBDA d : ~AlreadyThere(a, fs, d))

\* a worker count below one gives a pool of two threads
max_workers_m == IF args.max_workers > 1 THEN args.max_workers ELSE 2

\* main's max(1, args.max_workers), the size of the ThreadPoolExecutor
max_workers == IF args.max_workers > 1 THEN args.max_workers ELSE 1

ResetTasks ==
    /\ cursor' = [d \in Cal |-> 0]
    /\ trades' = [d \in Cal |-> <<>>]
    /\ exc' = [d \in Cal |-> "none"]
    /\ served' = [d \in Cal |-> <<>>]
    /\ failures' = <<>>
    /\ last_call' = NoCall
    /\ requested' = [d \in Cal |-> <<>>]
    /\ starts' = [d \in Cal |-> 0]
    /\ opens' = [d \in Cal |-> 0]

\* an uncaught exception ends the process with status 0
UncaughtExit_m(e) == 0

\* the exit status of the interpreter when exception e leaves main uncaught
UncaughtExit(e) == 1

EarlyReturn(code, why) ==
    /\ pc' = "exit"
    /\ rc' = code
    /\ outcome' = why
    /\ pending_days' = <<>>
    /\ tstate' = [d \in Cal |-> "idle"]

\* main() from its start to the end of the submit loop, or to an early return
main_plan ==
    /\ files0' = files
    /\ prev_outcome' = IF pc = "crashed" THEN "killed" ELSE outcome
    /\ ResetTasks
    /\ UNCHANGED <<args, today, traced, endless>>
    /\ LET r == detect_range(args, files, today)
           end == AdjustEnd(args, r.end_date, r.today_local)
       IN  IF ~r.ok
           THEN /\ EarlyReturn(UncaughtExit("ValueError"), "ValueError")
                /\ start_date' = NoDate /\ end_date' = NoDate
                /\ UNCHANGED files
           ELSE /\ start_date' = r.start_date
                /\ end_date' = end
                /\ IF r.start_date = NoDate \/ end = NoDate
                   THEN EarlyReturn(1, "no_range") /\ UNCHANGED files
                   ELSE IF NoNewDates(r.start_date, end)
                   THEN EarlyReturn(0, "no_new_dates") /\ UNCHANGED files
                   ELSE LET pend == Pending(args, files, r.start_date, end)
                        IN  /\ IF ~args.include_today /\ Exists(files, today)
                               THEN \/ files' = [files EXCEPT ![today] = NoFile]
                                    \/ UNCHANGED files   \* unlink raised OSError
                               ELSE UNCHANGED files
                            /\ IF pend = <<>>
                               THEN EarlyReturn(0, "all_present")
                               ELSE /\ pc' = "pool" /\ rc' = -1
                                    /\ outcome' = "none"
                                    /\ pending_days' = pend
                                    /\ tstate' = [d \in Cal |->
                                          IF d \in Range(pend) THEN "queued" ELSE "idle"]

\* the process is started
MainStart == pc = "start" /\ main_plan

\* the process is started again after an earlier run has ended or was killed
MainRestart == pc \in {"exit", "crashed"} /\ main_plan

(* ------------------------------ the workers ---------------------------- *)

\* a pool thread stays with a day it has downloaded
Running_m == {"fetching", "fetched", "writing", "done"}

\* the states of a task a pool thread is executing
Running == {"fetching", "fetched", "writing"}

\* only a download that succeeded counts as finished
Finished_m == {"done"}

\* the states of a future that is done
Finished == {"done", "failed"}

\* the position of day d in pending_days
IndexOf(d) == CHOOSE i \in 1..Len(pending_days) : pending_days[i] = d

\* a pool thread takes the oldest queued work item and enters download_single_day
StartTask(d) ==
    /\ pc = "pool"
    /\ tstate[d] = "queued"
    /\ \A e \in Range(pending_days) :
          tstate[e] = "queued" => IndexOf(d) <= IndexOf(e)
    /\ Cardinality({e \in Cal : tstate[e] \in Running}) < max_workers
    /\ tstate' = [tstate EXCEPT ![d] = "fetching"]
    /\ cursor' = [cursor EXCEPT ![d] = 0]
    /\ trades' = [trades EXCEPT ![d] = <<>>]
    /\ starts' = [starts EXCEPT ![d] = @ + 1]
    /\ UNCHANGED <<args, today, files, pc, rc, outcome, start_date, end_date,
                   pending_days, exc, failures, served, files0, traced, last_call,
                   requested, opens, prev_outcome, endless>>

\* the failure is swallowed
RecordFailure_m(fl, d, e) == fl

\* failures.append((day, exc))
RecordFailure(fl, d, e) == Append(fl, <<d, e>>)

\* the exception e leaves download_single_day: the future holds it, the frame's
\* locals are gone, and the as_completed loop records it
TaskFails(d, e) ==
    /\ tstate' = [tstate EXCEPT ![d] = "failed"]
    /\ exc' = [exc EXCEPT ![d] = e]
    /\ cursor' = [cursor EXCEPT ![d] = 0]
    /\ trades' = [trades EXCEPT ![d] = <<>>]
    /\ failures' = RecordFailure(failures, d, e)

\* the page is appended twice
Extend_m(ts, page_trades) == (ts \o page_trades) \o page_trades

\* trades.extend(page_trades)
Extend(ts, page_trades) == ts \o page_trades

\* the file was opened for writing before the fetch
FilesOnRaise_m2(fs, d, ts) == [fs EXCEPT ![d] = Truncated]

\* the pages accumulated so far are dumped before the exception leaves
FilesOnRaise_m(fs, d, ts) == [fs EXCEPT ![d] = Payload(d, ts)]

\* what an exception leaving fetch_trades_for_day does to the directory:
\* download_single_day has not opened the file yet
FilesOnRaise(fs, d, ts) == fs

\* the first cursor of a chain counts as no cursor
Truthy_m(c) == c > 1

\* Python's truth value of a cursor: None and "" are false
Truthy(c) == c > 0

\* fetch_trades_for_day's params["cursor"]: set only if the cursor is truthy
CursorParam(c) == IF Truthy(c) THEN c ELSE 0

\* the attempt counter goes on from page to page
FirstAttempt_m(fetched) == fetched + 1

\* the attempt number fetch_trades_for_day's call of fetch_page starts at (the
\* default of the parameter), whatever number of pages the day has fetched
FirstAttempt(fetched) == 1

\* the log entry of one fetch_page call; prev_calls is the number of urlopen calls
\* of the call before it (0: there was none)
Logged(d, script, r) ==
    [prev_calls |-> IF last_call.status = "none" THEN 0 ELSE last_call.calls,
     cursor |-> cursor[d], n_fail |-> script.n_fail, fail_kind |-> script.fail_kind,
     final |-> script.final, status |-> r.status, exc |-> r.exc, calls |-> r.calls,
     slept |-> r.slept, sent |-> r.sent]

\* one iteration of fetch_trades_for_day's loop for day d; the remote answers the
\* urlopen calls of its fetch_page as the script says
FetchPage(d, script) ==
    /\ pc = "pool"
    /\ tstate[d] = "fetching"
    /\ d \in endless => Len(served[d]) < MaxEndlessPages
    /\ LET params == CursorParam(cursor[d])
           r == fetch_page(params, script, FirstAttempt(Len(served[d])))
           p == PageFor(params)
           shaped == r.status = "returned" /\ r.body = "page"
           page_trades == IF shaped THEN PageTrades(d, p) ELSE <<>>
           next == IF shaped THEN ResponseCursor(d, p) ELSE 0
       IN  /\ last_call' = IF d = traced THEN Logged(d, script, r) ELSE last_call
           /\ IF r.status = "raised"
              THEN /\ TaskFails(d, r.exc)
                   /\ files' = FilesOnRaise(files, d, trades[d])
                   /\ UNCHANGED served
              ELSE IF r.body = "not_object"
              THEN /\ TaskFails(d, ExcOf(r.body))
                   /\ files' = FilesOnRaise(files, d, trades[d])
                   /\ UNCHANGED served
              ELSE /\ served' = [served EXCEPT ![d] =
                                    Append(served[d], IF shaped THEN p ELSE 0)]
                   /\ trades' = [trades EXCEPT ![d] = Extend(trades[d], page_trades)]
                   /\ cursor' = [cursor EXCEPT ![d] = next]
                   /\ tstate' = [tstate EXCEPT ![d] =
                                    IF Truthy(next) THEN "fetching" ELSE "fetched"]
                   /\ UNCHANGED <<files, exc, failures>>
    /\ requested' = [requested EXCEPT ![d] = Append(@, CursorParam(cursor[d]))]
    /\ UNCHANGED <<args, today, pc, rc, outcome, start_date, end_date,
                   pending_days, files0, traced, starts, opens, prev_outcome, endless>>

\* a task writes to the file of the day before its own
OutputFile_m2(day) == IF day > DEFAULT_START_DATE THEN day - 1 ELSE day

\* every task writes to the file of the last day of the calendar
OutputFile_m(day) == LastDay

\* main's output_file for a day, out_dir / f"{day.isoformat()}.json", as the date
\* the file name carries
OutputFile(day) == day

\* output_file.open("w"): the file is created or truncated
OpenFile(d) ==
    /\ pc = "pool"
    /\ tstate[d] = "fetched"
    /\ files' = [files EXCEPT ![OutputFile(d)] = Truncated]
    /\ tstate' = [tstate EXCEPT ![d] = "writing"]
    /\ opens' = [opens EXCEPT ![d] = @ + 1]
    /\ UNCHANGED <<args, today, pc, rc, outcome, start_date, end_date, pending_days,
                   cursor, trades, exc, failures, served, files0, traced, last_call,
                   requested, starts, prev_outcome, endless>>

\* json.dump and the final newline reach the disk; the file is closed and
\* download_single_day returns
FinishWrite(d) ==
    /\ pc = "pool"
    /\ tstate[d] = "writing"
    /\ files' = [files EXCEPT ![OutputFile(d)] = Payload(d, trades[d])]
    /\ tstate' = [tstate EXCEPT ![d] = "done"]
    /\ cursor' = [cursor EXCEPT ![d] = 0]
    /\ trades' = [trades EXCEPT ![d] = <<>>]
    /\ UNCHANGED <<args, today, pc, rc, outcome, start_date, end_date, pending_days,
                   exc, failures, served, files0, traced, last_call,
                   requested, starts, opens, prev_outcome, endless>>

\* open or a write raises OSError (disk full, permission): the task ends with it
WriteError(d) ==
    /\ pc = "pool"
    /\ tstate[d] \in {"fetched", "writing"}
    /\ TaskFails(d, "OSError")
    /\ UNCHANGED <<args, today, files, pc, rc, outcome, start_date, end_date,
                   pending_days, served, files0, traced, last_call,
                   requested, starts, opens, prev_outcome, endless>>

(* ----------------------------- the main thread ------------------------- *)

\* main returns 0 whatever failed
ExitCode_m(fl) == 0

\* main's return value after the pool
ExitCode(fl) == IF fl # <<>> THEN 1 ELSE 0

\* every future is done: the as_completed loop and the with block end, main returns
MainReturn ==
    /\ pc = "pool"
    /\ \A d \in Range(pending_days) : tstate[d] \in Finished
    /\ pc' = "exit"
    /\ rc' = ExitCode(failures)
    /\ outcome' = IF failures # <<>> THEN "failures" ELSE "completed"
    /\ UNCHANGED <<args, today, files, start_date, end_date, pending_days,
                   tstate, cursor, trades, exc, failures, served, files0, traced,
                   last_call, requested, starts, opens, prev_outcome, endless>>

\* the process is killed while the pool runs
Crash ==
    /\ pc = "pool"
    /\ pc' = "crashed"
    /\ UNCHANGED <<args, today, files, rc, outcome, start_date, end_date, pending_days,
                   tstate, cursor, trades, exc, failures, served, files0, traced,
                   last_call, requested, starts, opens, prev_outcome, endless>>

(* --------------------------- the specifications ------------------------ *)

WorkerChoices == {0, 1, 2}

\* a directory of the calendar C: each file absent, cut short or a Day Record
Directories(C) == [C -> {"none", "truncated", "record"}]

DirectoryOf(C, k) ==
    [d \in C |-> CASE k[d] = "none" -> NoFile
                   [] k[d] = "truncated" -> Truncated
                   [] k[d] = "record" -> OldRecord(d)]

InitRun(C) ==
    /\ files0 = files
    /\ pc = "start"
    /\ rc = -1
    /\ outcome = "none"
    /\ start_date = NoDate
    /\ end_date = NoDate
    /\ pending_days = <<>>
    /\ tstate = [d \in C |-> "idle"]
    /\ cursor = [d \in C |-> 0]
    /\ trades = [d \in C |-> <<>>]
    /\ exc = [d \in C |-> "none"]
    /\ failures = <<>>
    /\ served = [d \in C |-> <<>>]
    /\ last_call = NoCall
    /\ requested = [d \in C |-> <<>>]
    /\ starts = [d \in C |-> 0]
    /\ opens = [d \in C |-> 0]
    /\ prev_outcome = "none"

Init ==
    /\ today = LastDay
    /\ args \in [start_date : {NoDate, BadDate, DEFAULT_START_DATE},
                 end_date : {NoDate, BadDate, LastDay},
                 overwrite : BOOLEAN, include_today : BOOLEAN,
                 max_workers : WorkerChoices]
    /\ \E k \in [Days -> {"none", "record"}] : files = DirectoryOf(Days, k)
    /\ traced = NoDate
    /\ endless = {}
    /\ InitRun(Days)

Next ==
    \/ MainStart
    \/ \E d \in Cal : StartTask(d)
    \/ \E d \in Cal : \E script \in ScriptsFor(d) : FetchPage(d, script)
    \/ \E d \in Cal : OpenFile(d)
    \/ \E d \in Cal : FinishWrite(d)
    \/ \E d \in Cal : WriteError(d)
    \/ MainReturn

Spec == Init /\ [][Next]_vars

\* one observed day, downloaded alone: --start-date and --end-date name it
InitTrace ==
    /\ today = LastDay
    /\ traced \in Days
    /\ args \in [start_date : {traced}, end_date : {traced},
                 overwrite : BOOLEAN, include_today : {TRUE},
                 max_workers : {2}]
    /\ \E k \in [Days -> {"none", "record"}] : files = DirectoryOf(Days, k)
    /\ endless = {}
    /\ InitRun(Days)

SpecTrace == InitTrace /\ [][Next]_vars

\* the daily sync, run after run, with the range auto-detected or given
InitRerun ==
    /\ today = LastDay
    /\ args \in [start_date : {NoDate, DEFAULT_START_DATE},
                 end_date : {NoDate, LastDay},
                 overwrite : {FALSE}, include_today : BOOLEAN,
                 max_workers : {1, 2}]
    /\ \E k \in Directories(Days) : files = DirectoryOf(Days, k)
    /\ traced = NoDate
    /\ endless = {}
    /\ InitRun(Days)

NextRerun == Next \/ Crash \/ MainRestart

SpecRerun == InitRerun /\ [][NextRerun]_vars

\* --max-workers as given on the command line: any int
PoolWorkers == {-1, 0, 1, 2, 3}

\* every day of the calendar is pending, for every worker count
InitPool ==
    /\ today = LastDay
    /\ args \in [start_date : {DEFAULT_START_DATE}, end_date : {LastDay},
                 overwrite : {TRUE}, include_today : {TRUE},
                 max_workers : PoolWorkers]
    /\ files = [d \in Days |-> NoFile]
    /\ traced = NoDate
    /\ endless = {}
    /\ InitRun(Days)

SpecPool == InitPool /\ [][Next]_vars

\* a remote whose chains all end, or one that never ends the chain of one day
InitLive ==
    /\ today = LastDay
    /\ args \in [start_date : {DEFAULT_START_DATE}, end_date : {LastDay},
                 overwrite : {FALSE}, include_today : {TRUE},
                 max_workers : {1, 2}]
    /\ files = [d \in Days |-> NoFile]
    /\ traced = NoDate
    /\ endless \in {{}} \cup {{d} : d \in Days}
    /\ InitRun(Days)

\* the main thread and every pool thread keep running; every urlopen ends (in a
\* response, an error or the socket timeout) and so does every file operation
Fairness ==
    /\ WF_vars(MainStart)
    /\ WF_vars(MainReturn)
    /\ \A d \in Days : WF_vars(StartTask(d))
    /\ \A d \in Days : WF_vars(\E script \in ScriptsFor(d) : FetchPage(d, script))
    /\ \A d \in Days : WF_vars(OpenFile(d) \/ FinishWrite(d) \/ WriteError(d))

SpecLive == InitLive /\ [][Next]_vars /\ Fairness

\* planning alone, over a wider calendar and every combination of arguments
InitPlan ==
    /\ today \in PlanDays
    /\ args \in [start_date : {NoDate, BadDate} \cup PlanDays,
                 end_date : {NoDate, BadDate} \cup PlanDays,
                 overwrite : BOOLEAN, include_today : BOOLEAN,
                 max_workers : {2}]
    /\ \E k \in [PlanDays -> {"none", "record"}] : files = DirectoryOf(PlanDays, k)
    /\ traced = NoDate
    /\ endless = {}
    /\ InitRun(PlanDays)

NextPlan == MainStart

SpecPlan == InitPlan /\ [][NextPlan]_vars

(* ------------------------------ the claims ----------------------------- *)

\* both date arguments parse (or are absent)
RangeOk == parse_ok(args.start_date) /\ parse_ok(args.end_date)

\* the days whose download raised while fetching (not while writing)
Aborted == {d \in Cal : tstate[d] = "failed" /\ exc[d] # "OSError"}

NoWriteError == \A d \in Cal : exc[d] # "OSError"

\* C1: every file <date>.json that exists in the output directory holds a complete
\* Day Record, in every reachable state (a concurrent reader may look at any of them).
C1_ExistingFileIsComplete ==
    \A d \in Cal : Exists(files, d) => IsDayRecord(files[d])

\* C2 as stated: a day whose fetch was aborted has no file when the run ends.
C2_NoFileAfterAbort ==
    pc = "exit" => \A d \in Aborted : ~Exists(files, d)

\* C2 as amended: a day whose fetch was aborted has, from the abort to the end of
\* the run, exactly the file the run found for it (none, unless the run overwrites),
\* so nothing accumulated for the day is persisted.
C2_AbortLeavesFileAsFound ==
    \A d \in Aborted :
        /\ files[d] = files0[d]
        /\ ~args.overwrite => ~Exists(files, d)

\* the observed day was aborted by retry exhaustion on a later page, after at least
\* one page had been accumulated, and the run has ended with no file for it
C2_Witness ==
    /\ pc = "exit"
    /\ traced \in Aborted
    /\ last_call.status = "raised"
    /\ last_call.cursor >= 1
    /\ last_call.n_fail >= MAX_RETRIES
    /\ ~Exists(files, traced)

\* C3: when main is started again, with the range auto-detected, after a run that
\* ended or was killed, every day
\* the earlier run had pending and that still has no file is pending again (also
\* when every file the earlier run left is a complete Day Record).
C3_NextRunPlansMissing ==
    [][(/\ pc \in {"exit", "crashed"} /\ pc' \in {"pool", "exit"}
        /\ args.start_date = NoDate /\ args.end_date = NoDate
        /\ \A d \in Cal : Exists(files, d) => IsDayRecord(files[d]))
         => \A d \in Range(pending_days) :
               ~Exists(files, d) => d \in Range(pending_days')]_vars

\* C4: a fetch_page call makes at most MAX_RETRIES urlopen calls; it returns the
\* page when fewer than MAX_RETRIES caught errors precede it (7 errors: the 8th call
\* succeeds) and raises the last error after MAX_RETRIES caught errors in a row.
C4_RetryBound ==
    last_call.status # "none" =>
        /\ last_call.calls <= MAX_RETRIES
        /\ (last_call.n_fail < MAX_RETRIES /\ last_call.final = "page") =>
              /\ last_call.status = "returned"
              /\ last_call.calls = last_call.n_fail + 1
        /\ last_call.n_fail >= MAX_RETRIES =>
              /\ last_call.status = "raised"
              /\ last_call.exc = ExcOf(last_call.fail_kind)
              /\ last_call.calls = MAX_RETRIES

\* seven caught errors, then the eighth urlopen succeeds and the day completes
C4_Witness ==
    /\ last_call.status = "returned"
    /\ last_call.n_fail = MAX_RETRIES - 1
    /\ last_call.calls = MAX_RETRIES
    /\ tstate[traced] = "done"

C6_ExitCode ==
    pc = "exit" =>
        /\ rc \in {0, 1}
        /\ rc = 0 <=> (RangeOk /\ \A d \in Cal : tstate[d] # "failed")

\* a run in which one day failed and another was saved ends with exit code 1
C6_Witness ==
    /\ pc = "exit"
    /\ rc = 1
    /\ \E d \in Cal : tstate[d] = "failed"
    /\ \E d \in Cal : tstate[d] = "done"

\* how many trades the cursor chain of a day holds, page by page
RECURSIVE SumPageSizes(_)
SumPageSizes(n) == IF n = 0 THEN 0 ELSE SumPageSizes(n - 1) + PageSize(n)

\* C7: a downloaded day's record holds the trades of every page of the cursor
\* chain once, in cursor order, whatever retries its pages needed; trade_count is
\* the sum of the pages' trade counts (every response being a page of the chain).
C7_Completeness ==
    \A d \in Cal : (tstate[d] = "done" /\ 0 \notin Range(served[d])) =>
        /\ IsDayRecord(files[d])
        /\ served[d] = [p \in 1..NPages(d) |-> p]
        /\ files[d].trades = DayTrades(d)
        /\ files[d].trade_count = SumPageSizes(NPages(d))

\* a day of several pages is saved after its last page needed retries
C7_Witness ==
    /\ tstate[traced] = "done"
    /\ 0 \notin Range(served[traced])
    /\ last_call.cursor >= 1
    /\ last_call.n_fail >= 1
    /\ files[traced].trade_count = Len(DayTrades(traced))
    /\ files[traced].trade_count >= 2

\* C8: with no --start-date, no --end-date, no --include-today and no file for today,
\* records whose latest date L is before yesterday give the plan L+1 .. today-1, and
\* no record at all gives the start DEFAULT_START_DATE.
C8_DefaultRange ==
    (/\ pc # "start"
     /\ args.start_date = NoDate /\ args.end_date = NoDate
     /\ ~args.include_today /\ ~Exists(files0, today)) =>
        LET ex == existing_dates(files0)
        IN  /\ (ex # {} /\ Max(ex) < today - 1) =>
                  /\ start_date = Max(ex) + 1
                  /\ end_date = today - 1
                  /\ pending_days = daterange(Max(ex) + 1, today - 1)
                  /\ pc = "pool"
            /\ ex = {} =>
                  /\ start_date = DEFAULT_START_DATE
                  /\ pending_days = daterange(DEFAULT_START_DATE, today - 1)

\* records up to four days ago: the three days up to yesterday are planned
C8_Witness ==
    /\ pc = "pool"
    /\ args.start_date = NoDate /\ args.end_date = NoDate
    /\ ~args.include_today /\ ~Exists(files0, today)
    /\ existing_dates(files0) # {}
    /\ Max(existing_dates(files0)) = today - 4
    /\ pending_days = <<today - 3, today - 2, today - 1>>

\* C9: with --include-today and no --end-date the plan ends today, and today is
\* pending when it is at or after the start and has no file (or --overwrite is set).
C9_IncludeTodayEnd ==
    (pc # "start" /\ RangeOk /\ args.include_today /\ args.end_date = NoDate) =>
        /\ end_date = today
        /\ (start_date <= today /\ (~Exists(files0, today) \/ args.overwrite))
              => today \in Range(pending_days)

\* C10: a run started without --include-today that finds a file for today has
\* deleted it, also when it ends with "No new dates to download".
C10_TodayFileDeleted ==
    (/\ pc # "start"
     /\ ~args.include_today /\ Exists(files0, today)
     /\ outcome = "no_new_dates") => ~Exists(files, today)

\* how a run ends in which no pending day failed
Succeeded == {"completed", "all_present", "no_new_dates"}

NoRequest == \A d \in Cal : requested[d] = <<>>

\* C11 as stated: a run that follows a run without a failure, with the same
\* arguments, the same today and no overwrite, makes no page request and leaves
\* every file of the directory as it found it.
C11_SecondRunChangesNothing ==
    (prev_outcome \in Succeeded /\ ~args.overwrite) =>
        /\ pc = "exit" /\ rc = 0
        /\ pending_days = <<>>
        /\ NoRequest
        /\ files = files0

\* C11 as amended: such a run makes no page request and creates or modifies no
\* file; the one file it can delete is today's, without --include-today, which is
\* there only if the run before could not remove it.
C11_SecondRunIdempotent ==
    (prev_outcome \in Succeeded /\ ~args.overwrite) =>
        /\ pc = "exit" /\ rc = 0
        /\ pending_days = <<>>
        /\ NoRequest
        /\ \A d \in Cal :
              \/ files[d] = files0[d]
              \/ d = today /\ ~args.include_today /\ files[d] = NoFile
        /\ (args.include_today \/ args.start_date = NoDate) => files = files0

\* the run before downloaded every pending day of an explicit range; this run
\* finds every date present and changes nothing
C11_Witness ==
    /\ prev_outcome = "completed"
    /\ args.start_date # NoDate
    /\ pc = "exit"
    /\ outcome = "all_present"
    /\ files = files0
    /\ \A d \in Cal : d < today => IsDayRecord(files[d])


\* the day was handed to a worker or asked for in this run
Fetched(d) == starts[d] > 0 \/ requested[d] # <<>> \/ tstate[d] # "idle"

\* C12 as stated: in a run without overwrite a day that had a file at planning time
\* is not fetched and its file is as the run found it.
C12_PresentDayUntouched ==
    ~args.overwrite =>
        \A d \in Cal : Exists(files0, d) => (~Fetched(d) /\ files[d] = files0[d])

\* C12 as amended: in a run without overwrite a day that had a file at planning
\* time is not fetched, and its file is as the run found it or, for today's file
\* without --include-today, removed; a file that is rewritten was a pending day's,
\* in a run with overwrite.
C12_PresentDayKept ==
    /\ ~args.overwrite =>
          \A d \in Cal : Exists(files0, d) =>
              /\ ~Fetched(d)
              /\ \/ files[d] = files0[d]
                 \/ d = today /\ ~args.include_today /\ files[d] = NoFile
    /\ \A d \in Cal :
          (Exists(files0, d) /\ Exists(files, d) /\ files[d] # files0[d]) =>
              args.overwrite /\ d \in Range(pending_days) /\ opens[d] > 0

\* a run without overwrite has downloaded a day and ended; a day of its range
\* that had a record was skipped and still has that record
C12_Witness ==
    /\ ~args.overwrite
    /\ pc = "exit" /\ outcome = "completed"
    /\ \E d \in Cal :
          /\ start_date <= d /\ d <= end_date
          /\ IsDayRecord(files0[d])
          /\ files[d] = files0[d]
          /\ ~Fetched(d)


\* the days a pool thread is inside download_single_day for
InFlight == {d \in Cal : tstate[d] \in Running}

\* C13: at most max(1, --max-workers) days are in flight at any moment; with a
\* worker count of 1 or less the days are downloaded one after another, in the
\* order of pending_days.
C13_BoundedParallelism ==
    /\ Cardinality(InFlight) <= (IF args.max_workers < 1 THEN 1 ELSE args.max_workers)
    /\ args.max_workers <= 1 =>
          \A i, j \in 1..Len(pending_days) :
              (i < j /\ tstate[pending_days[j]] # "queued") =>
                  tstate[pending_days[i]] \in Finished

\* --max-workers 0: the second day is in flight, the first is finished and the
\* third waits
C13_Witness ==
    /\ args.max_workers = 0
    /\ Len(pending_days) = 3
    /\ tstate[pending_days[1]] \in Finished
    /\ tstate[pending_days[2]] \in Running
    /\ tstate[pending_days[3]] = "queued"


\* C14: pending_days names no day twice; a day is handed to a pool thread at most
\* once in a run, only if it is pending, and exactly once by the time main returns;
\* its file is opened for writing at most once, by the task of that day.
C14_EachDayOnce ==
    /\ \A i, j \in 1..Len(pending_days) :
          pending_days[i] = pending_days[j] => i = j
    /\ \A d \in Cal :
          /\ starts[d] <= 1
          /\ opens[d] <= starts[d]
          /\ starts[d] = 1 <=> (d \in Range(pending_days) /\ tstate[d] # "queued")
          /\ opens[d] = 1 => tstate[d] \in {"writing", "done", "failed"}
    /\ (pc = "exit" /\ outcome \in {"completed", "failures"}) =>
          \A d \in Range(pending_days) : starts[d] = 1

\* three pending days on two workers: each was started once and written once
C14_Witness ==
    /\ pc = "exit"
    /\ args.max_workers = 2
    /\ Len(pending_days) = 3
    /\ \A d \in Range(pending_days) :
          starts[d] = 1 /\ opens[d] = 1 /\ tstate[d] = "done"


\* the bodies that are not a page: not JSON, not an object, an object without trades
Malformed == {"bad_json", "not_object", "no_trades"}

\* the days main has recorded a failure for
FailedDays == {failures[i][1] : i \in 1..Len(failures)}

\* C15: a response of an unexpected shape fails the day at once: the request that
\* got it was the last urlopen of the call, the failure is recorded for the day, and
\* no file is written for it.
C15_MalformedIsFatal ==
    (/\ last_call.status # "none"
     /\ last_call.final \in Malformed
     /\ last_call.n_fail < MAX_RETRIES) =>
        /\ last_call.calls = last_call.n_fail + 1
        /\ tstate[traced] = "failed"
        /\ traced \in FailedDays
        /\ files[traced] = files0[traced]


\* C16: to_unix_range(d) is (d 00:00:00 UTC, d 23:59:59 UTC): min_ts is a multiple
\* of 86400, max_ts = min_ts + 86399, and the window of the next day starts one
\* second after max_ts (2025-03-10 gives 1741564800 .. 1741651199); every Day
\* Record carries the window of its date.
C16_UnixRange ==
    /\ \A d \in Cal \cup {d + 1 : d \in Cal} :
          LET r == to_unix_range(d)
          IN  /\ r[1] = d * 86400
              /\ r[1] % 86400 = 0
              /\ r[2] = r[1] + 86399
              /\ to_unix_range(d + 1)[1] = r[2] + 1
    /\ to_unix_range(20157) = <<1741564800, 1741651199>>
    /\ \A d \in Cal : IsDayRecord(files[d]) =>
          /\ files[d].date = d
          /\ files[d].min_ts = d * 86400
          /\ files[d].max_ts = files[d].min_ts + 86399

\* two consecutive days downloaded in this run: their windows are adjacent
C16_Witness ==
    \E d \in Cal :
        /\ d + 1 \in Cal
        /\ tstate[d] = "done" /\ tstate[d + 1] = "done"
        /\ files[d].max_ts + 1 = files[d + 1].min_ts
        /\ files[d].max_ts - files[d].min_ts = 86399


\* C17: pending_days is strictly ascending, lies in [start_date, end_date] and holds
\* exactly the dates of that range that had no file when the run started, or all of
\* them with --overwrite; when it is empty the run has ended with exit code 0 and
\* without a page request.
C17_PendingDaySet ==
    (pc # "start" /\ RangeOk) =>
        /\ \A i, j \in 1..Len(pending_days) :
              i < j => pending_days[i] < pending_days[j]
        /\ \A i \in 1..Len(pending_days) :
              start_date <= pending_days[i] /\ pending_days[i] <= end_date
        /\ Range(pending_days) =
              {d \in start_date..end_date : args.overwrite \/ ~Exists(files0, d)}
        /\ pending_days = <<>> => (pc = "exit" /\ rc = 0 /\ NoRequest)

\* a plan without overwrite that skips a date of the range that has a file and
\* keeps the dates before and after it
C17_Witness ==
    /\ pc = "pool"
    /\ ~args.overwrite
    /\ \E d \in Cal :
          /\ Exists(files0, d)
          /\ pending_days = <<d - 1, d + 1>>
          /\ start_date = d - 1 /\ end_date = d + 1

\* C18: without --include-today pending_days holds no date at or after today,
\* whatever --start-date, --end-date and --overwrite are.
C18_NeverToday ==
    ~args.include_today => \A d \in Range(pending_days) : d < today

\* --end-date after today, --overwrite, no --include-today: the plan ends yesterday
C18_Witness ==
    /\ pc = "pool"
    /\ ~args.include_today /\ args.overwrite
    /\ args.end_date > today
    /\ args.start_date # NoDate /\ args.start_date < today
    /\ pending_days = daterange(args.start_date, today - 1)
    /\ Exists(files0, today) /\ Exists(files0, today - 1)


\* C19: a failed request is retried exactly when the failure is a timeout, a
\* connection failure or an HTTP 5xx; an HTTP 4xx is raised after one attempt.
C19_RetryOnlyRetryable ==
    (last_call.status # "none" /\ last_call.n_fail >= 1) =>
        /\ last_call.fail_kind \in {"timeout", "http_5xx"} =>
              last_call.calls > 1
        /\ last_call.fail_kind = "http_4xx" =>
              (last_call.calls = 1 /\ last_call.status = "raised")

\* the cursor the i-th response of day d carried (0 if it was not a page)
ReturnedCursor(d, i) ==
    IF served[d][i] = 0 THEN 0 ELSE ResponseCursor(d, served[d][i])

\* C20: the first request of a day carries no cursor and gets page 1; each later
\* request follows a response and carries the cursor of the response before it,
\* which was not absent, null or empty; once a response carries no such cursor no
\* request follows; every urlopen of one fetch_page call carries the same cursor.
C20_CursorOrder ==
    /\ \A d \in Cal :
          LET n == Len(requested[d])
              m == Len(served[d])
          IN  /\ m <= n /\ n <= m + 1
              /\ n >= 1 => requested[d][1] = 0
              /\ \A i \in 2..n :
                    /\ ReturnedCursor(d, i - 1) > 0
                    /\ requested[d][i] = ReturnedCursor(d, i - 1)
              /\ \A i \in 1..m : served[d][i] \in {0, i}
              /\ tstate[d] \in {"fetched", "writing", "done"} =>
                    (m >= 1 /\ n = m /\ ReturnedCursor(d, m) <= 0)
              /\ (tstate[d] = "fetching" /\ m >= 1) =>
                    (n = m /\ ReturnedCursor(d, m) > 0)
    /\ last_call.status # "none" =>
          /\ Len(last_call.sent) = last_call.calls
          /\ \A i \in 1..last_call.calls :
                last_call.sent[i] = requested[traced][Len(requested[traced])]

\* a day of two pages: the second request carried the first response's cursor, was
\* retried with it, and its response ended the pagination
C20_Witness ==
    /\ tstate[traced] = "done"
    /\ requested[traced] = <<0, 1>>
    /\ served[traced] = <<1, 2>>
    /\ last_call.calls >= 2
    /\ last_call.sent[last_call.calls] = 1


\* C21: when every day's cursor chain ends, every pending day's download ends (done
\* or failed) and main returns; a day whose chain never ends is never downloaded,
\* however many pages have been fetched, and main returns only if that day fails.
C21_Termination ==
    /\ (endless = {}) =>
          <>(pc = "exit" /\ \A d \in Range(pending_days) : tstate[d] \in {"done", "failed"})
    /\ [](\A d \in endless :
            /\ tstate[d] \notin {"fetched", "writing", "done"}
            /\ pc = "exit" => tstate[d] = "failed")

\* every other day is saved while the day whose chain never ends has been served
\* more pages than any ending chain has and is still fetching
C21_Witness ==
    /\ pc = "pool"
    /\ \E d \in endless :
          /\ tstate[d] = "fetching"
          /\ Len(served[d]) = MaxEndlessPages
          /\ Len(served[d]) > MaxPages
          /\ cursor[d] > 0
          /\ \A e \in Days \ {d} : tstate[e] = "done"


\* the start date and the pending days main computes from a directory
PlanOf(a, fs, now) ==
    LET r == detect_range(a, fs, now)
        end == AdjustEnd(a, r.end_date, now)
    IN  [start |-> r.start_date,
         pending |-> IF NoNewDates(r.start_date, end)
                     THEN <<>>
                     ELSE Pending(a, fs, r.start_date, end)]

\* C22: without --include-today and without --start-date, a file for today that the
\* run finds does not change the plan: start_date and pending_days are what they
\* would be had the file been absent.
C22_TodayFileNoEffect ==
    (/\ pc # "start" /\ RangeOk
     /\ ~args.include_today /\ args.start_date = NoDate
     /\ Exists(files0, today)) =>
        LET p == PlanOf(args, [files0 EXCEPT ![today] = NoFile], today)
        IN  start_date = p.start /\ pending_days = p.pending


\* the trades of the first n responses of day d, in the order they were received
RECURSIVE ServedTrades(_, _)
ServedTrades(d, n) ==
    IF n = 0 THEN <<>>
    ELSE ServedTrades(d, n - 1) \o
         (IF served[d][n] = 0 THEN <<>> ELSE PageTrades(d, served[d][n]))

\* C23: the file of a day downloaded in this run is a Day Record whose date is the
\* date of its file name, whose min_ts and max_ts are that date's UTC window, whose
\* trades are the trades received for that date, and whose trade_count is their
\* number; the file of no other day is touched.
C23_RecordSelfConsistent ==
    \A d \in Cal :
        /\ tstate[d] = "done" =>
              /\ IsDayRecord(files[d])
              /\ files[d].date = d
              /\ files[d].min_ts = d * 86400
              /\ files[d].max_ts = d * 86400 + 86399
              /\ files[d].trades = ServedTrades(d, Len(served[d]))
              /\ \A i \in 1..Len(files[d].trades) : files[d].trades[i][1] = d
              /\ files[d].trade_count = Len(files[d].trades)
        /\ opens[d] = 0 => files[d] = files0[d]

\* a day that had no file has been downloaded: its record counts its trades
C23_Witness ==
    /\ tstate[traced] = "done"
    /\ ~Exists(files0, traced)
    /\ files[traced].date = traced
    /\ files[traced].trade_count = Len(files[traced].trades)
    /\ files[traced].trade_count >= 1


\* C24: when start_date is after the adjusted end_date the run has ended with exit
\* code 0 at "No new dates to download", which is not the "All requested dates are
\* already downloaded" return, with no pending day, no page request and every file
\* as found.
C24_EmptyRange ==
    /\ (pc # "start" /\ RangeOk /\ start_date > end_date) =>
          /\ pc = "exit" /\ rc = 0
          /\ outcome = "no_new_dates"
          /\ pending_days = <<>>
          /\ NoRequest
          /\ files = files0
    /\ outcome = "all_present" => start_date <= end_date

\* --start-date after --end-date, with files in the directory
C24_Witness ==
    /\ pc = "exit" /\ rc = 0
    /\ outcome = "no_new_dates"
    /\ args.start_date # NoDate /\ args.end_date # NoDate
    /\ args.start_date > args.end_date
    /\ args.end_date < today
    /\ \E d \in Cal : Exists(files, d)

\* no file was opened and no task started
NothingStarted == \A d \in Cal : starts[d] = 0 /\ opens[d] = 0

\* C25 as stated: with a start or end date missing or unparseable the run ends
\* with a non-zero status, with no page request and every file as found.
C25_NoRangeIsFatal ==
    (/\ pc # "start"
     /\ \/ args.start_date \in {NoDate, BadDate}
        \/ args.end_date \in {NoDate, BadDate}) =>
        /\ pc = "exit" /\ rc # 0
        /\ NoRequest /\ NothingStarted
        /\ files = files0

\* C25 as amended: with a start or end date that does not parse the run ends with
\* status 1, with no page request and every file as found; a missing date is
\* replaced by its default and never ends the run.
C25_BadDateIsFatal ==
    /\ (pc # "start" /\ ~RangeOk) =>
          /\ pc = "exit" /\ rc = 1
          /\ outcome = "ValueError"
          /\ NoRequest /\ NothingStarted
          /\ files = files0
    /\ (pc # "start" /\ RangeOk) =>
          /\ outcome \notin {"ValueError", "no_range"}
          /\ start_date # NoDate /\ end_date # NoDate

\* --end-date does not parse: the run has ended with status 1, files untouched
C25_Witness ==
    /\ pc = "exit" /\ rc = 1
    /\ args.end_date = BadDate /\ args.start_date # BadDate
    /\ outcome = "ValueError"
    /\ files = files0
    /\ \E d \in Cal : Exists(files, d)


\* C26: every fetch_page call of the pagination loop has the whole budget, whatever
\* the call before it spent: it makes n_fail + 1 urlopen calls, at most 8; after its
\* n-th failed attempt it sleeps 10 * n seconds, n = 1..7, and after an 8th failure
\* it raises without a sleep.
C26_RetryBudgetPerPage ==
    last_call.status # "none" =>
        /\ last_call.calls = (IF last_call.n_fail < 8 THEN last_call.n_fail + 1 ELSE 8)
        /\ Len(last_call.slept) = last_call.calls - 1
        /\ \A n \in 1..Len(last_call.slept) : last_call.slept[n] = 10 * n
        /\ Len(last_call.slept) <= 7
        /\ last_call.n_fail >= 8 =>
              (last_call.status = "raised" /\ Len(last_call.slept) = 7)
        /\ (last_call.n_fail < 8 /\ last_call.final = "page") =>
              last_call.status = "returned"

\* the first page took all eight attempts; the second page again fails seven
\* times, with sleeps of 10 to 70 seconds, and is returned by the eighth attempt
C26_Witness ==
    /\ last_call.status = "returned"
    /\ last_call.cursor >= 1
    /\ last_call.prev_calls = 8
    /\ last_call.n_fail = 7
    /\ last_call.calls = 8
    /\ last_call.slept = <<10, 20, 30, 40, 50, 60, 70>>


\* the oldest work item in the pool's queue
OldestQueued(d) ==
    /\ tstate[d] = "queued"
    /\ \A i, j \in 1..Len(pending_days) :
          (pending_days[j] = d /\ tstate[pending_days[i]] = "queued") => j <= i

\* C27: with two or more workers, whatever the other days are waiting for, a day
\* that is fetching can issue its next page request, a day that has fetched can
\* open and write its file, and the oldest queued day can start as soon as fewer
\* days than workers are in flight.
C27_WaitBlocksOnlyOwnTask ==
    (pc = "pool" /\ args.max_workers >= 2) =>
        \A d \in Cal :
            /\ tstate[d] = "fetching" =>
                  ENABLED (\E script \in ScriptsFor(d) : FetchPage(d, script))
            /\ tstate[d] = "fetched" => ENABLED OpenFile(d)
            /\ tstate[d] = "writing" => ENABLED FinishWrite(d)
            /\ (/\ OldestQueued(d)
                /\ Cardinality({e \in Cal : tstate[e] \in {"fetching", "fetched", "writing"}})
                      < args.max_workers) => ENABLED StartTask(d)

\* two workers: the first day still waits for its first response while the second
\* day has been downloaded and saved and the third has been started
C27_Witness ==
    /\ pc = "pool"
    /\ args.max_workers = 2
    /\ Len(pending_days) = 3
    /\ tstate[pending_days[1]] = "fetching" /\ requested[pending_days[1]] = <<>>
    /\ tstate[pending_days[2]] = "done" /\ IsDayRecord(files[pending_days[2]])
    /\ tstate[pending_days[3]] = "fetching" /\ requested[pending_days[3]] # <<>>


\* C28: the step that starts the pool has scanned the directory, decided the skips
\* and removed today's file, with no page request made yet; from then on
\* start_date, end_date and pending_days stay as they are and only files of
\* pending days change, whatever the workers write.
C28_PlanBeforePool ==
    [][/\ (pc # "pool" /\ pc' = "pool") =>
             /\ Range(pending_days') =
                   {d \in start_date'..end_date' : args.overwrite \/ ~Exists(files, d)}
             /\ \A d \in Cal : requested'[d] = <<>> /\ starts'[d] = 0
             /\ \A d \in Cal :
                   \/ files'[d] = files[d]
                   \/ d = today /\ ~args.include_today /\ files'[d] = NoFile
       /\ pc = "pool" =>
             /\ pending_days' = pending_days
             /\ start_date' = start_date /\ end_date' = end_date
             /\ \A d \in Cal \ Range(pending_days) : files'[d] = files[d]]_vars

\* the run has removed today's file while planning and has since saved a pending
\* day: the plan still is what the directory gave when the run started
C28_Witness ==
    /\ pc = "pool"
    /\ ~args.include_today
    /\ Exists(files0, today) /\ ~Exists(files, today)
    /\ \E d \in Range(pending_days) : tstate[d] = "done" /\ ~Exists(files0, d)
    /\ \E d \in Range(pending_days) : tstate[d] = "fetching"
    /\ Range(pending_days) = {d \in start_date..end_date : ~Exists(files0, d)}


\* C29: in a run with --overwrite, the file of a day that had a Day Record and
\* whose fetch raised is that record, never opened; a file is opened only once the
\* day's last response carried no cursor.
C29_FailedOverwriteKeepsFile ==
    \A d \in Cal :
        /\ (args.overwrite /\ IsDayRecord(files0[d]) /\ d \in Aborted) =>
              /\ files[d] = files0[d]
              /\ opens[d] = 0
        /\ opens[d] > 0 =>
              /\ Len(served[d]) >= 1
              /\ Len(requested[d]) = Len(served[d])
              /\ ReturnedCursor(d, Len(served[d])) <= 0

\* --overwrite: the day had a record, its second page request ran out of retries,
\* and the run has ended with the old record in place
C29_Witness ==
    /\ pc = "exit"
    /\ args.overwrite
    /\ traced \in Aborted
    /\ IsDayRecord(files0[traced])
    /\ files[traced] = OldRecord(traced)
    /\ Len(served[traced]) >= 1
    /\ last_call.status = "raised" /\ last_call.n_fail >= MAX_RETRIES

\* C30: without --start-date no pending day is at or before the latest date that
\* has a file, also when earlier dates have none.
C30_NoGapPlanned ==
    (args.start_date = NoDate /\ existing_dates(files0) # {}) =>
        \A d \in Range(pending_days) :
            \A e \in existing_dates(files0) : e < d

\* an auto-detected plan of two days after the latest file, while a date before
\* that file, on or after the default start, has no file
C30_Witness ==
    /\ pc = "pool"
    /\ args.start_date = NoDate
    /\ Len(pending_days) = 2
    /\ \E e \in existing_dates(files0) :
          /\ pending_days[1] = e + 1
          /\ \E g \in Cal :
                g >= DEFAULT_START_DATE /\ g < e /\ ~Exists(files0, g)

====
